---- MODULE Spec2Model ----
(***************************************************************************)
(* Model of input-recording/read_ram_dump.py: a reader of PS1 RAM dumps.   *)
(*                                                                         *)
(* Representation.  TLC's integers are 32-bit signed, while PS1 addresses  *)
(* (0x80000000 and up) and 4-byte unsigned values need 32 unsigned bits.   *)
(* Both are therefore kept as a pair <<hi, lo>> of 16-bit halves standing  *)
(* for hi * 65536 + lo; Python's unbounded integers never wrap, so hi is   *)
(* not reduced.  A buffer (Python bytes) is a sequence of 0..255; Python's *)
(* 0-based data[j] is the sequence element data[j + 1].                    *)
(***************************************************************************)
EXTENDS Integers, Sequences, FiniteSets, TLC

VARIABLES pc, data, data2, args, loc, out, ret

vars == <<pc, data, data2, args, loc, out, ret>>

\* ------------------------------------------------------------- bounds
MaxBufLen == 4

MaxDiffLen == 3

MaxThreshold == 3

MaxHexBuf == 34

MaxHexLength == 36

MaxLines == 3

MaxFiles == 2

\* byte values the buffers are drawn from: both ends of the byte range,
\* one value with only the low bit and one with only the high bit set
ByteVals == {0, 1, 128, 255}

RECURSIVE SeqsUpTo(_, _)
SeqsUpTo(S, n) ==
    IF n = 0 THEN {<<>>}
    ELSE LET shorter == SeqsUpTo(S, n - 1)
         IN  shorter \cup {Append(s, x) : s \in {t \in shorter : Len(t) = n - 1}, x \in S}

\* ---------------------------------------------------- 32-bit quantities
HALF == 256 * 256

\* RAM_BASE = 0x80000000
RAM_BASE == <<32768, 0>>

RAM_SIZE == 2 * 1024 * 1024

\* address - RAM_BASE, a plain (small) integer
Offset(address) ==
    (address[1] - RAM_BASE[1]) * HALF + (address[2] - RAM_BASE[2])

\* RAM_BASE + i
BasePlus(i) ==
    <<RAM_BASE[1] + ((RAM_BASE[2] + i) \div HALF), (RAM_BASE[2] + i) % HALF>>

\* ------------------------------------------------------------ read_value
\* struct.unpack_from("<H", data, offset)[0]
BE16(d, offset) == 256 * d[offset + 1] + d[offset + 2]

LE16(d, offset) == d[offset + 1] + 256 * d[offset + 2]

\* struct.unpack_from("<I", data, offset)[0]
LE32(d, offset) == <<LE16(d, offset + 2), LE16(d, offset)>>

\* the size dispatch placed before the range check
read_value_size_first(d, address, size) ==
    LET offset == Offset(address) IN
    IF size \notin {1, 2, 4} THEN [kind |-> "UnsupportedSize"]
    ELSE IF offset < 0 \/ offset + size > Len(d) THEN [kind |-> "OutOfRange"]
    ELSE IF size = 1 THEN [kind |-> "value", value |-> <<0, d[offset + 1]>>]
    ELSE IF size = 2 THEN [kind |-> "value", value |-> <<0, LE16(d, offset)>>]
    ELSE [kind |-> "value", value |-> LE32(d, offset)]

\* the lower bound of the range check left out
read_value_no_lower_bound(d, address, size) ==
    LET offset == Offset(address) IN
    IF offset + size > Len(d) THEN [kind |-> "OutOfRange"]
    ELSE IF offset < 0 THEN [kind |-> "IndexError"]
    ELSE IF size = 1 THEN [kind |-> "value", value |-> <<0, d[offset + 1]>>]
    ELSE IF size = 2 THEN [kind |-> "value", value |-> <<0, LE16(d, offset)>>]
    ELSE IF size = 4 THEN [kind |-> "value", value |-> LE32(d, offset)]
    ELSE [kind |-> "UnsupportedSize"]

\* Both failures are Python ValueErrors; they differ in their message
\* ("Address ... out of range" / "Unsupported size: ...").
read_value(d, address, size) ==
    LET offset == Offset(address) IN
    IF offset < 0 \/ offset + size > Len(d) THEN [kind |-> "OutOfRange"]
    ELSE IF size = 1 THEN [kind |-> "value", value |-> <<0, d[offset + 1]>>]
    ELSE IF size = 2 THEN [kind |-> "value", value |-> <<0, LE16(d, offset)>>]
    ELSE IF size = 4 THEN [kind |-> "value", value |-> LE32(d, offset)]
    ELSE [kind |-> "UnsupportedSize"]

\* ----------------------------------------------- specification: read_value
\* the bytes 58 8F 06 80 of the documented crash3 "lives" address
ExampleBuffer == <<88, 143, 6, 128>>

ReadBuffers == SeqsUpTo(ByteVals, MaxBufLen) \cup {ExampleBuffer}

\* addresses from two below RAM_BASE to two past the longest buffer
ReadAddresses == {BasePlus(o) : o \in -2 .. MaxBufLen + 2}

ReadSizes == -3 .. 5

InitRead ==
    /\ pc = "call"
    /\ data \in ReadBuffers
    /\ data2 = <<>>
    /\ args \in [op : {"read_value"}, address : ReadAddresses, size : ReadSizes]
    /\ loc = <<>>
    /\ out = <<>>
    /\ ret = [kind |-> "none"]

CallReadValue ==
    /\ pc = "call"
    /\ ret' = read_value(data, args.address, args.size)
    /\ pc' = IF ret'.kind = "value" THEN "returned" ELSE "raised"
    /\ UNCHANGED <<data, data2, args, loc, out>>

NextRead == CallReadValue

SpecRead == InitRead /\ [][NextRead]_vars

\* the k-th base-256 digit (k in 0..3) of a 32-bit quantity <<hi, lo>>
Digit(v, k) ==
    IF k = 0 THEN v[2] % 256
    ELSE IF k = 1 THEN v[2] \div 256
    ELSE IF k = 2 THEN v[1] % 256
    ELSE v[1] \div 256

ReadOffset == Offset(args.address)

ReadInRange == ReadOffset >= 0 /\ ReadOffset + args.size <= Len(data)

\* C1: a read of size 1, 2 or 4 that lies within the buffer returns, without
\* error, the unsigned little-endian integer of the size bytes at the offset:
\* its base-256 digit k is buffer[offset + k] for k < size and 0 above, so
\* the value lies in [0, 256^size); 58 8F 06 80 at offset 0 reads 0x80068F58.
C1_ReadLittleEndian ==
    (pc # "call" /\ args.size \in {1, 2, 4} /\ ReadInRange) =>
        /\ pc = "returned"
        /\ ret.kind = "value"
        /\ ret.value[1] \in 0 .. HALF - 1
        /\ ret.value[2] \in 0 .. HALF - 1
        /\ \A k \in 0 .. 3 :
              Digit(ret.value, k) =
                  IF k < args.size THEN data[ReadOffset + k + 1] ELSE 0
        /\ (data = ExampleBuffer /\ ReadOffset = 0 /\ args.size = 4) =>
              ret.value = <<32774, 36696>>

C1_Witness ==
    /\ pc = "returned"
    /\ args.size = 4
    /\ ReadOffset = 0
    /\ data = <<1, 0, 128, 255>>
    /\ ret.value = <<65408, 1>>

\* C2: a read whose address is below RAM_BASE, or that would end past the
\* buffer's actual length, fails with OutOfRange and returns no value,
\* whatever the buffer holds and whatever the size.
C2_OutOfRangeFails ==
    (pc # "call" /\ ~ReadInRange) =>
        pc = "raised" /\ ret.kind = "OutOfRange"

C2_Witness ==
    /\ pc = "raised"
    /\ ret.kind = "OutOfRange"
    /\ ReadOffset = -1
    /\ args.size = 1
    /\ Len(data) = 2

\* C3 as stated: a size other than 1, 2 or 4 fails with UnsupportedSize at
\* every address, in range or not.
C3_UnsupportedSizeAlways ==
    (pc # "call" /\ args.size \notin {1, 2, 4}) =>
        pc = "raised" /\ ret.kind = "UnsupportedSize"

\* C3 amended: a size other than 1, 2 or 4 always fails; the failure is
\* UnsupportedSize exactly when the range check passes (offset >= 0 and
\* offset + size <= len), and OutOfRange otherwise.
C3_UnsupportedSizeInRange ==
    (pc # "call" /\ args.size \notin {1, 2, 4}) =>
        /\ pc = "raised"
        /\ ret.kind = IF ReadInRange THEN "UnsupportedSize" ELSE "OutOfRange"

C3_Witness ==
    /\ pc = "raised"
    /\ args.size = 3
    /\ ReadOffset = 0
    /\ Len(data) = 3
    /\ ret.kind = "UnsupportedSize"

\* --------------------------------------------------------- compare_dumps
Min(a, b) == IF a < b THEN a ELSE b

\* the collection loop stopping one offset short of the overlap
RECURSIVE DifferencesShort(_, _, _)
DifferencesShort(d1, d2, n) ==
    IF n <= 1 THEN <<>>
    ELSE LET before == DifferencesShort(d1, d2, n - 1)
             i == n - 2
         IN  IF d1[i + 1] # d2[i + 1]
             THEN Append(before, <<BasePlus(i), d1[i + 1], d2[i + 1]>>)
             ELSE before

\* the list `differences` after the first n iterations (i = 0 .. n-1) of
\* the collection loop
RECURSIVE Differences(_, _, _)
Differences(d1, d2, n) ==
    IF n <= 0 THEN <<>>
    ELSE LET before == Differences(d1, d2, n - 1)
             i == n - 1
         IN  IF d1[i + 1] # d2[i + 1]
             THEN Append(before, <<BasePlus(i), d1[i + 1], d2[i + 1]>>)
             ELSE before

\* Python's s[:n]
PySlicePrefix(s, n) ==
    IF n >= 0 THEN SubSeq(s, 1, Min(n, Len(s)))
    ELSE SubSeq(s, 1, IF Len(s) + n > 0 THEN Len(s) + n ELSE 0)

\* the difference of the two bytes taken modulo 256
DeltaWrapped(v1, v2) == (v2 - v1) % 256

\* delta = v2 - v1
Delta(v1, v2) == v2 - v1

DiffRow(rec) ==
    [line |-> "row", addr |-> rec[1], before |-> rec[2], after |-> rec[3],
     delta |-> Delta(rec[2], rec[3])]

\* the truncation test written >= instead of >
TruncatesAtOrAbove(total, threshold) == total >= threshold

\* len(differences) > threshold
Truncates(total, threshold) == total > threshold

\* What one call collects and prints: `differences` as collected (before
\* truncation) and the lines written to standard output, in order.
compare_dumps(d1, d2, threshold) ==
    LET differences == Differences(d1, d2, Min(Len(d1), Len(d2)))
        total == Len(differences)
        cut == Truncates(total, threshold)
        shown == IF cut THEN PySlicePrefix(differences, threshold) ELSE differences
    IN  [differences |-> differences,
         printed |->
             <<[line |-> "found", n |-> total]>>
             \o (IF cut THEN <<[line |-> "showing", n |-> threshold]>> ELSE <<>>)
             \o <<[line |-> "rule"], [line |-> "header"], [line |-> "rule"]>>
             \o [k \in 1 .. Len(shown) |-> DiffRow(shown[k])]]

\* --------------------------------------------- specification: compare_dumps
DiffBytes == {0, 1, 255}

DiffBuffers == SeqsUpTo(DiffBytes, MaxDiffLen)

NoResult == [kind |-> "none"]

\* Two runs over the same pair of dumps: first (data, data2), then the
\* files given in the other order.
InitDiff ==
    /\ pc = "forward"
    /\ data \in DiffBuffers
    /\ data2 \in DiffBuffers
    /\ args \in [op : {"compare_dumps"}, threshold : 0 .. MaxThreshold]
    /\ loc = <<>>
    /\ out = NoResult
    /\ ret = NoResult

CompareForward ==
    /\ pc = "forward"
    /\ out' = compare_dumps(data, data2, args.threshold)
    /\ pc' = "reverse"
    /\ UNCHANGED <<data, data2, args, loc, ret>>

CompareReverse ==
    /\ pc = "reverse"
    /\ ret' = compare_dumps(data2, data, args.threshold)
    /\ pc' = "done"
    /\ UNCHANGED <<data, data2, args, loc, out>>

NextDiff == CompareForward \/ CompareReverse

SpecDiff == InitDiff /\ [][NextDiff]_vars

Overlap == Min(Len(data), Len(data2))

DifferingOffsets == {i \in 0 .. Overlap - 1 : data[i + 1] # data2[i + 1]}

Rows(printed) == SelectSeq(printed, LAMBDA l : l.line = "row")

\* C5: the records collected are exactly (RAM_BASE + i, A[i], B[i]) for the
\* offsets i below min(len A, len B) where the bytes differ, once each, in
\* strictly ascending address order; none lies at or past the overlap and
\* the count printed is the number of such offsets.
C5_DifferencesExact ==
    (pc # "forward") =>
        LET D == out.differences IN
        /\ \A k \in 1 .. Len(D) :
              /\ Offset(D[k][1]) \in DifferingOffsets
              /\ Offset(D[k][1]) < Overlap
              /\ D[k] = <<BasePlus(Offset(D[k][1])),
                          data[Offset(D[k][1]) + 1], data2[Offset(D[k][1]) + 1]>>
        /\ \A k \in 1 .. Len(D) - 1 : Offset(D[k][1]) < Offset(D[k + 1][1])
        /\ \A i \in DifferingOffsets : \E k \in 1 .. Len(D) : Offset(D[k][1]) = i
        /\ Len(D) = Cardinality(DifferingOffsets)
        /\ out.printed[1] = [line |-> "found", n |-> Cardinality(DifferingOffsets)]

C5_Witness ==
    /\ pc = "reverse"
    /\ data = <<1, 0, 255>>
    /\ data2 = <<0, 0>>
    /\ out.differences = <<<<RAM_BASE, 1, 0>>>>

\* C6: comparing (A, B) and (B, A) gives the same count and the same
\* differing addresses in the same order; at each of them the delta of
\* (B, A) is the negation of the delta of (A, B), and every delta
\* (after - before) is a non-zero integer in -255 .. 255.
C6_SymmetricNegated ==
    (pc = "done") =>
        LET F == out.differences
            R == ret.differences
            FR == Rows(out.printed)
            RR == Rows(ret.printed)
        IN
        /\ out.printed[1] = ret.printed[1]
        /\ Len(F) = Len(R)
        /\ \A k \in 1 .. Len(F) : F[k][1] = R[k][1]
        /\ Len(FR) = Len(RR)
        /\ \A k \in 1 .. Len(FR) :
              /\ FR[k].addr = RR[k].addr
              /\ RR[k].delta = 0 - FR[k].delta
              /\ FR[k].delta # 0
              /\ FR[k].delta \in -255 .. 255
              /\ FR[k].delta = FR[k].after - FR[k].before
        /\ \A k \in 1 .. Len(F) :
              DiffRow(R[k]).delta = 0 - DiffRow(F[k]).delta

C6_Witness ==
    /\ pc = "done"
    /\ Len(data) # Len(data2)
    /\ \E k \in 1 .. Len(Rows(out.printed)) :
          /\ Rows(out.printed)[k].delta = -255
          /\ Rows(ret.printed)[k].delta = 255

HexEndUnclamped(d, offset, length) == offset + length

\* end = min(offset + length, len(data))
HexEnd(d, offset, length) == Min(offset + length, Len(d))

\* Python's data[j] raises IndexError outside -len .. len-1 and counts a
\* negative index from the end.
PyIndexOK(d, j) == -Len(d) <= j /\ j < Len(d)

PyByte(d, j) == IF j >= 0 THEN d[j + 1] ELSE d[Len(d) + j + 1]

\* chr(b) if 32 <= b < 127 else "."
AsciiOf(b) == IF 32 <= b /\ b < 127 THEN <<"chr", b>> ELSE "."

\* range(i, min(i + 16, end)) of one row
RowRange(i, end) == i .. Min(i + 16, end) - 1

HexRowLine(d, i, end) ==
    [line |-> "row",
     addr |-> BasePlus(i),
     bytes |-> [k \in 1 .. Cardinality(RowRange(i, end)) |-> PyByte(d, i + k - 1)],
     ascii |-> [k \in 1 .. Cardinality(RowRange(i, end)) |->
                   AsciiOf(PyByte(d, i + k - 1))]]

\* --------------------------------------------- specification: print_hex_dump
\* buffer contents: byte j of the buffer with the given seed
HexBuffer(seed, n) == [j \in 1 .. n |-> (seed + 37 * (j - 1)) % 256]

HexSeeds == {0, 100}

\* length: int = 64
HexDefaultLength == 64

InitHex ==
    /\ pc = "hex_start"
    /\ \E n \in 0 .. MaxHexBuf, seed \in HexSeeds : data = HexBuffer(seed, n)
    /\ data2 = <<>>
    /\ \E o \in -2 .. Len(data) + 1, length \in (-1 .. MaxHexLength) \cup {HexDefaultLength} :
          args = [op |-> "print_hex_dump", address |-> BasePlus(o), length |-> length]
    /\ loc = <<>>
    /\ out = <<>>
    /\ ret = NoResult

\* lines 63-67: offset, end, the title and the rule
HexHeader ==
    /\ pc = "hex_start"
    /\ LET offset == Offset(args.address) IN
        loc' = [i |-> offset, end |-> HexEnd(data, offset, args.length), reads |-> {}]
    /\ out' = <<[line |-> "title", addr |-> args.address], [line |-> "rule"]>>
    /\ pc' = "hex_loop"
    /\ UNCHANGED <<data, data2, args, ret>>

\* one iteration of the loop of lines 69-75
HexRow ==
    /\ pc = "hex_loop"
    /\ loc.i < loc.end
    /\ IF \A j \in RowRange(loc.i, loc.end) : PyIndexOK(data, j)
       THEN /\ out' = Append(out, HexRowLine(data, loc.i, loc.end))
            /\ loc' = [loc EXCEPT !.i = @ + 16,
                                   !.reads = @ \cup RowRange(loc.i, loc.end)]
            /\ pc' = "hex_loop"
            /\ ret' = ret
       ELSE /\ ret' = [kind |-> "IndexError"]
            /\ loc' = [loc EXCEPT !.reads =
                          @ \cup {j \in RowRange(loc.i, loc.end) :
                                     \A h \in loc.i .. j - 1 : PyIndexOK(data, h)}]
            /\ pc' = "raised"
            /\ out' = out
    /\ UNCHANGED <<data, data2, args>>

HexReturn ==
    /\ pc = "hex_loop"
    /\ loc.i >= loc.end
    /\ pc' = "returned"
    /\ UNCHANGED <<data, data2, args, loc, out, ret>>

NextHex == HexHeader \/ HexRow \/ HexReturn

SpecHex == InitHex /\ [][NextHex]_vars

HexOffset == Offset(args.address)

HexLast == Min(HexOffset + args.length, Len(data))

RECURSIVE Concat(_)
Concat(ss) == IF ss = <<>> THEN <<>> ELSE Head(ss) \o Concat(Tail(ss))

HexRows == SelectSeq(out, LAMBDA l : l.line = "row")

\* C10: for a start address inside the buffer and any requested length the
\* dump never fails and never reads at an offset outside the buffer; it
\* shows exactly the bytes at offsets [offset, min(offset + length, len)),
\* in rows of at most 16 bytes of which only the last may be shorter, each
\* labelled RAM_BASE + the offset of its first byte.
C10_HexDumpClamped ==
    (0 <= HexOffset /\ HexOffset < Len(data)) =>
        /\ pc # "raised"
        /\ pc # "hex_start" =>
              /\ \A j \in loc.reads : HexOffset <= j /\ j < HexLast /\ j < Len(data)
              /\ \A k \in 1 .. Len(HexRows) :
                    /\ HexRows[k].addr = BasePlus(HexOffset + 16 * (k - 1))
                    /\ Len(HexRows[k].bytes) \in 1 .. 16
                    /\ k < Len(HexRows) => Len(HexRows[k].bytes) = 16
                    /\ \A b \in 1 .. Len(HexRows[k].bytes) :
                          HexRows[k].bytes[b] = data[HexOffset + 16 * (k - 1) + b]
        /\ pc = "returned" =>
              /\ Concat([k \in 1 .. Len(HexRows) |-> HexRows[k].bytes])
                    = [b \in 1 .. (IF HexLast > HexOffset THEN HexLast - HexOffset ELSE 0)
                          |-> data[HexOffset + b]]
              /\ loc.reads = HexOffset .. HexLast - 1

C10_Witness ==
    /\ pc = "returned"
    /\ HexOffset = Len(data) - 1
    /\ Len(data) = 20
    /\ args.length = HexDefaultLength
    /\ Len(HexRows) = 1
    /\ Len(HexRows[1].bytes) = 1

\* ----------------------------------------------------------- load_watches
\* Text is a sequence of one-character strings.
IsSpace(c) == c \in {" ", "\t", "\n", "\r"}

RECURSIVE LStrip(_)
LStrip(t) == IF t # <<>> /\ IsSpace(Head(t)) THEN LStrip(Tail(t)) ELSE t

RECURSIVE RStrip(_)
RStrip(t) ==
    IF t # <<>> /\ IsSpace(t[Len(t)]) THEN RStrip(SubSeq(t, 1, Len(t) - 1)) ELSE t

\* str.strip()
Strip(t) == RStrip(LStrip(t))

\* str.split(","): the fields between the commas, at least one
RECURSIVE Split(_)
Split(t) ==
    IF \A k \in 1 .. Len(t) : t[k] # ","
    THEN <<t>>
    ELSE LET c == CHOOSE k \in 1 .. Len(t) :
                      t[k] = "," /\ \A h \in 1 .. k - 1 : t[h] # ","
         IN  <<SubSeq(t, 1, c - 1)>> \o Split(SubSeq(t, c + 1, Len(t)))

HexDigits == <<"0", "1", "2", "3", "4", "5", "6", "7", "8", "9",
               "a", "b", "c", "d", "e", "f">>

UpperHexDigits == <<"0", "1", "2", "3", "4", "5", "6", "7", "8", "9",
                    "A", "B", "C", "D", "E", "F">>

\* the value of digit c in the base, or -1
DigitValue(c, base) ==
    IF \E v \in 1 .. base : HexDigits[v] = c \/ UpperHexDigits[v] = c
    THEN (CHOOSE v \in 1 .. base : HexDigits[v] = c \/ UpperHexDigits[v] = c) - 1
    ELSE -1

\* acc * base + d on a 32-bit quantity <<hi, lo>>
Shift(acc, base, d) ==
    <<acc[1] * base + ((acc[2] * base + d) \div HALF), (acc[2] * base + d) % HALF>>

RECURSIVE ParseDigits(_, _, _)
ParseDigits(t, base, acc) ==
    IF t = <<>> THEN [ok |-> TRUE, value |-> acc]
    ELSE IF DigitValue(Head(t), base) < 0 THEN [ok |-> FALSE]
    ELSE ParseDigits(Tail(t), base, Shift(acc, base, DigitValue(Head(t), base)))

\* int(text, base) for base 10 and 16, on text without sign or underscore:
\* surrounding whitespace is dropped, base 16 takes an optional 0x / 0X
\* prefix, at least one digit is required; ok = FALSE is ValueError.
PyInt(text, base) ==
    LET t == Strip(text)
        body == IF base = 16 /\ Len(t) >= 2 /\ t[1] = "0" /\ t[2] \in {"x", "X"}
                THEN SubSeq(t, 3, Len(t)) ELSE t
    IN  IF body = <<>> THEN [ok |-> FALSE] ELSE ParseDigits(body, base, <<0, 0>>)

\* the loader without the comment test
RECURSIVE load_watches_no_comments(_, _)
load_watches_no_comments(file, watches) ==
    IF file = <<>> THEN [kind |-> "ok", watches |-> watches]
    ELSE LET line == Strip(Head(file))
             parts == Split(line)
         IN  IF line = <<>>
             THEN load_watches_no_comments(Tail(file), watches)
             ELSE IF Len(parts) >= 3
             THEN LET address == PyInt(Strip(parts[2]), 16)
                      size == PyInt(Strip(parts[3]), 10)
                  IN  IF ~address.ok \/ ~size.ok THEN [kind |-> "ParseError"]
                      ELSE load_watches_no_comments(Tail(file),
                               Append(watches,
                                   <<Strip(parts[1]), address.value, size.value[2]>>))
             ELSE load_watches_no_comments(Tail(file), watches)

\* the loader skipping a line whose field does not parse
RECURSIVE load_watches_skip_bad(_, _)
load_watches_skip_bad(file, watches) ==
    IF file = <<>> THEN [kind |-> "ok", watches |-> watches]
    ELSE LET line == Strip(Head(file))
             parts == Split(line)
         IN  IF line = <<>> \/ Head(line) = "#"
             THEN load_watches_skip_bad(Tail(file), watches)
             ELSE IF Len(parts) >= 3
             THEN LET address == PyInt(Strip(parts[2]), 16)
                      size == PyInt(Strip(parts[3]), 10)
                  IN  IF ~address.ok \/ ~size.ok
                      THEN load_watches_skip_bad(Tail(file), watches)
                      ELSE load_watches_skip_bad(Tail(file),
                               Append(watches,
                                   <<Strip(parts[1]), address.value, size.value[2]>>))
             ELSE load_watches_skip_bad(Tail(file), watches)

\* The loop of lines 105-114 over the remaining lines of the file, with the
\* list built so far.  A ValueError of int() leaves the function at once:
\* nothing is returned (kind "ParseError").  Sizes are small, so the low
\* half of the parsed size is the size.
RECURSIVE load_watches_from(_, _)
load_watches_from(file, watches) ==
    IF file = <<>> THEN [kind |-> "ok", watches |-> watches]
    ELSE LET line == Strip(Head(file))
             parts == Split(line)
         IN  IF line = <<>> \/ Head(line) = "#"
             THEN load_watches_from(Tail(file), watches)
             ELSE IF Len(parts) >= 3
             THEN LET address == PyInt(Strip(parts[2]), 16)
                      size == PyInt(Strip(parts[3]), 10)
                  IN  IF ~address.ok \/ ~size.ok THEN [kind |-> "ParseError"]
                      ELSE load_watches_from(Tail(file),
                               Append(watches,
                                   <<Strip(parts[1]), address.value, size.value[2]>>))
             ELSE load_watches_from(Tail(file), watches)

load_watches(file) == load_watches_from(file, <<>>)

\* ------------------------------ specification: the watch branch of main
\* "a,0x10,1"
LineA == <<"a", ",", "0", "x", "1", "0", ",", "1">>

\* ""
LineBlank == <<>>

\* "# c"
LineComment == <<"#", " ", "c">>

\* "b,0x20,2"
LineB == <<"b", ",", "0", "x", "2", "0", ",", "2">>

\* "bad,xyz,1"
LineBadAddress == <<"b", "a", "d", ",", "x", "y", "z", ",", "1">>

\* " a , 80000001 ,1,x"
LinePadded == <<" ", "a", " ", ",", " ", "8", "0", "0", "0", "0", "0", "0", "1", " ", ",", "1", ",", "x">>

\* "a,10"
LineShort == <<"a", ",", "1", "0">>

\* "c,0x80000000,2x"
LineBadSize == <<"c", ",", "0", "x", "8", "0", "0", "0", "0", "0", "0", "0", ",", "2", "x">>

\* "  "
LineSpaces == <<" ", " ">>

\* " #z,q,1"
LineCommentFields == <<" ", "#", "z", ",", "q", ",", "1">>

WatchLines == {LineA, LineBlank, LineComment, LineB, LineBadAddress, LinePadded,
               LineShort, LineBadSize, LineSpaces, LineCommentFields}

WatchFiles == SeqsUpTo(WatchLines, MaxLines)

\* "a,0x10,1\n\n# c\nb,0x20,2"
ExampleWatchFile == <<LineA, LineBlank, LineComment, LineB>>

WatchBuffers == {<<>>, <<7, 255, 1>>}

InitWatch ==
    /\ pc = "watch_load"
    /\ data \in WatchBuffers
    /\ data2 = <<>>
    /\ \E file \in WatchFiles \cup {ExampleWatchFile} :
          args = [op |-> "watch", file |-> file]
    /\ loc = <<>>
    /\ out = <<>>
    /\ ret = NoResult

\* lines 164-166: the load, then the title and the rule
WatchLoad ==
    /\ pc = "watch_load"
    /\ LET r == load_watches(args.file) IN
       IF r.kind = "ok"
       THEN /\ loc' = [watches |-> r.watches, k |-> 1]
            /\ out' = <<[line |-> "title"], [line |-> "rule"]>>
            /\ pc' = "watch_print"
            /\ ret' = ret
       ELSE /\ ret' = r
            /\ pc' = "raised"
            /\ UNCHANGED <<loc, out>>
    /\ UNCHANGED <<data, data2, args>>

\* one iteration of the loop of lines 167-169
WatchPrint ==
    /\ pc = "watch_print"
    /\ loc.k <= Len(loc.watches)
    /\ LET w == loc.watches[loc.k]
           v == read_value(data, w[2], w[3])
       IN  IF v.kind = "value"
           THEN /\ out' = Append(out, [line |-> "watch", name |-> w[1],
                                        addr |-> w[2], size |-> w[3], value |-> v.value])
                /\ loc' = [loc EXCEPT !.k = @ + 1]
                /\ pc' = "watch_print"
                /\ ret' = ret
           ELSE /\ ret' = v
                /\ pc' = "raised"
                /\ UNCHANGED <<loc, out>>
    /\ UNCHANGED <<data, data2, args>>

WatchReturn ==
    /\ pc = "watch_print"
    /\ loc.k > Len(loc.watches)
    /\ pc' = "returned"
    /\ UNCHANGED <<data, data2, args, loc, out, ret>>

NextWatch == WatchLoad \/ WatchPrint \/ WatchReturn

SpecWatch == InitWatch /\ [][NextWatch]_vars

WatchFile == args.file

CommaCount(t) == Cardinality({k \in 1 .. Len(t) : t[k] = ","})

\* a line the loader passes over: blank after stripping, or a comment
Skipped(i) == Strip(WatchFile[i]) = <<>> \/ Strip(WatchFile[i])[1] = "#"

FieldCount(i) == CommaCount(Strip(WatchFile[i])) + 1

Field(i, n) == Split(Strip(WatchFile[i]))[n]

HexChars == {"0", "1", "2", "3", "4", "5", "6", "7", "8", "9",
             "a", "b", "c", "d", "e", "f", "A", "B", "C", "D", "E", "F"}

DecChars == {"0", "1", "2", "3", "4", "5", "6", "7", "8", "9"}

ValidHexText(text) ==
    LET t == Strip(text)
        body == IF Len(t) >= 2 /\ t[1] = "0" /\ t[2] \in {"x", "X"}
                THEN SubSeq(t, 3, Len(t)) ELSE t
    IN  body # <<>> /\ \A k \in 1 .. Len(body) : body[k] \in HexChars

ValidDecText(text) ==
    Strip(text) # <<>> /\ \A k \in 1 .. Len(Strip(text)) : Strip(text)[k] \in DecChars

\* at least 3 fields, of which the address or the size does not parse
BadFields(i) ==
    /\ FieldCount(i) >= 3
    /\ ~ValidHexText(Field(i, 2)) \/ ~ValidDecText(Field(i, 3))

\* the lines that yield an entry
EntryLines == {i \in 1 .. Len(WatchFile) : ~Skipped(i) /\ FieldCount(i) >= 3}

\* the k-th entry line, in file order
EntryLine(k) ==
    CHOOSE i \in EntryLines : Cardinality({j \in EntryLines : j < i}) = k - 1

\* C8: when every line with at least 3 fields has a valid hexadecimal
\* address and a valid decimal size, the load raises no error and returns
\* one (name, address, size) entry for each line that is non-blank after
\* stripping, is no comment and has at least 3 fields, and none for the
\* other lines; the entries are in file order and duplicate names stay.
\* "a,0x10,1", "", "# c", "b,0x20,2" gives (a, 0x10, 1), (b, 0x20, 2).
C8_EntriesPerLine ==
    (pc # "watch_load" /\ \A i \in EntryLines : ~BadFields(i)) =>
        /\ ret.kind # "ParseError"
        /\ loc # <<>>
        /\ Len(loc.watches) = Cardinality(EntryLines)
        /\ \A k \in 1 .. Len(loc.watches) :
              /\ loc.watches[k][1] = Strip(Field(EntryLine(k), 1))
              /\ loc.watches[k][2] = PyInt(Field(EntryLine(k), 2), 16).value
              /\ loc.watches[k][3] = PyInt(Field(EntryLine(k), 3), 10).value[2]
        /\ WatchFile = ExampleWatchFile =>
              loc.watches = << <<(<<"a">>), <<0, 16>>, 1>>, <<(<<"b">>), <<0, 32>>, 2>> >>

C8_Witness ==
    /\ pc = "returned"
    /\ WatchFile = <<LineCommentFields, LinePadded, LinePadded>>
    /\ loc.watches = << <<(<<"a">>), <<32768, 1>>, 1>>, <<(<<"a">>), <<32768, 1>>, 1>> >>
    /\ Len(out) = 4

\* C9 as stated: any line with at least 3 fields whose address is not
\* valid hexadecimal or whose size is not a valid decimal integer makes the
\* load fail with ParseError, with no entries and no watch values printed.
C9_AnyBadLineFails ==
    (pc # "watch_load" /\ \E i \in 1 .. Len(WatchFile) : BadFields(i)) =>
        pc = "raised" /\ ret.kind = "ParseError" /\ loc = <<>> /\ out = <<>>

\* C9 amended: a line that is non-blank after stripping and is no comment,
\* with at least 3 fields whose address is not valid hexadecimal or whose
\* size is not a valid decimal integer, makes the load fail with
\* ParseError, whatever valid lines precede or follow it: no entries are
\* returned and the watch branch prints nothing.  (A comment line is passed
\* over whatever its fields hold.)
C9_BadEntryLineFails ==
    (pc # "watch_load" /\ \E i \in EntryLines : BadFields(i)) =>
        pc = "raised" /\ ret.kind = "ParseError" /\ loc = <<>> /\ out = <<>>

C9_Witness ==
    /\ pc = "raised"
    /\ ret.kind = "ParseError"
    /\ WatchFile = <<LinePadded, LineBadAddress, LinePadded>>
    /\ data = <<7, 255, 1>>
    /\ out = <<>>

\* ------------------------------------------------------------------- main
\* KNOWN_ADDRESSES: (address, size) of each entry, in dictionary order
KNOWN_ADDRESSES(game) ==
    IF game = "crash3"
    THEN << <<(<<32774, 36696>>), 1>>, <<(<<32774, 36700>>), 2>>, <<(<<32774, 36704>>), 4>> >>
    ELSE << <<(<<32774, 29600>>), 1>>, <<(<<32774, 29604>>), 2>> >>

\* read_ram_dump: open() fails on an unreadable path; a length other than
\* RAM_SIZE only adds a warning on the error stream.
read_ram_dump(file) ==
    IF ~file.readable THEN [kind |-> "IOError"]
    ELSE [kind |-> "ok", data |-> file.content, warning |-> Len(file.content) # RAM_SIZE]

\* the rows of print_hex_dump from row offset i on
RECURSIVE HexLinesFrom(_, _, _)
HexLinesFrom(d, i, end) ==
    IF i >= end THEN [kind |-> "ok", lines |-> <<>>]
    ELSE IF \E j \in RowRange(i, end) : ~PyIndexOK(d, j)
    THEN [kind |-> "IndexError", lines |-> <<>>]
    ELSE LET rest == HexLinesFrom(d, i + 16, end)
         IN  [kind |-> rest.kind, lines |-> <<HexRowLine(d, i, end)>> \o rest.lines]

print_hex_dump(d, address, length) ==
    LET offset == Offset(address)
        rows == HexLinesFrom(d, offset, HexEnd(d, offset, length))
    IN  [kind |-> rows.kind,
         lines |-> <<[line |-> "title", addr |-> address], [line |-> "rule"]>>
                     \o rows.lines]

\* the loop of lines 157-159 / 167-169 over (address, size) pairs from
\* entry k on: the values printed, and the error that ended it, if any
RECURSIVE ReadAll(_, _, _)
ReadAll(d, entries, k) ==
    IF k > Len(entries) THEN [kind |-> "ok", lines |-> <<>>]
    ELSE LET v == read_value(d, entries[k][1], entries[k][2])
         IN  IF v.kind # "value" THEN [kind |-> v.kind, lines |-> <<>>]
             ELSE LET rest == ReadAll(d, entries, k + 1)
                  IN  [kind |-> rest.kind,
                       lines |-> <<[line |-> "value", addr |-> entries[k][1],
                                     size |-> entries[k][2], value |-> v.value]>>
                                 \o rest.lines]

\* Python truth of an optional string option: None and "" are false
Truthy(opt) == opt.given /\ opt.text # <<>>

\* the if-chain with the game test ahead of the address test
DispatchGameFirst(a) ==
    IF a.diff /\ a.nfiles >= 2 THEN "diff"
    ELSE IF a.game # "None" THEN "game"
    ELSE IF Truthy(a.address) THEN "address"
    ELSE IF Truthy(a.watch_file) THEN "watch"
    ELSE "summary"

\* the if-chain of lines 137, 144, 154, 163 and the fall-through of 172
Dispatch(a) ==
    IF a.diff /\ a.nfiles >= 2 THEN "diff"
    ELSE IF Truthy(a.address) THEN "address"
    ELSE IF a.game # "None" THEN "game"
    ELSE IF Truthy(a.watch_file) THEN "watch"
    ELSE "summary"

\* ------------------------------------------------- specification: main
NotGiven == [given |-> FALSE, text |-> <<>>]

Given(t) == [given |-> TRUE, text |-> t]

\* --address: absent, "", "0x80000001", "xyz"
AddressOptions ==
    {NotGiven, Given(<<>>),
     Given(<<"0", "x", "8", "0", "0", "0", "0", "0", "0", "1">>),
     Given(<<"x", "y", "z">>)}

\* --watch-file: absent, "", "w"
WatchFileOptions == {NotGiven, Given(<<>>), Given(<<"w">>)}

\* --game: absent, the two known ids, and an id argparse rejects
GameOptions == {"None", "crash2", "crash3", "other"}

FirstDump == <<7, 255, 0>>

SecondDump == <<7, 0, 1, 9>>

InitMain ==
    /\ pc = "parse_args"
    /\ data = <<>>
    /\ data2 = <<>>
    /\ args \in [op : {"main"},
                  nfiles : 0 .. MaxFiles,
                  diff : BOOLEAN,
                  address : AddressOptions,
                  size : {1, 3},
                  hex : BOOLEAN,
                  hex_length : {HexDefaultLength},
                  game : GameOptions,
                  watch_file : WatchFileOptions,
                  watches : {<<LinePadded, LineShort>>, <<LinePadded, LineBadSize>>},
                  file1 : [readable : BOOLEAN, content : {FirstDump}],
                  file2 : [readable : BOOLEAN, content : {SecondDump}]]
    /\ loc = [executed |-> <<>>]
    /\ out = <<>>
    /\ ret = NoResult

\* line 130: nargs="+" and choices= make argparse exit with status 2
ParseArgs ==
    /\ pc = "parse_args"
    /\ IF args.nfiles = 0 \/ args.game = "other"
       THEN pc' = "exit" /\ ret' = [kind |-> "SystemExit"]
       ELSE pc' = "load" /\ ret' = ret
    /\ UNCHANGED <<data, data2, args, loc, out>>

\* lines 133-134
LoadFirst ==
    /\ pc = "load"
    /\ LET r == read_ram_dump(args.file1) IN
       IF r.kind = "ok"
       THEN /\ data' = r.data
            /\ out' = <<[line |-> "loaded", n |-> Len(r.data), warning |-> r.warning]>>
            /\ pc' = "dispatch"
            /\ ret' = ret
       ELSE /\ ret' = [kind |-> r.kind]
            /\ pc' = "raised"
            /\ UNCHANGED <<data, out>>
    /\ UNCHANGED <<data2, args, loc>>

Enter(branch) == loc' = [loc EXCEPT !.executed = Append(@, branch)]

Finish(kind) ==
    /\ ret' = [kind |-> kind]
    /\ pc' = IF kind = "ok" THEN "done" ELSE "raised"

\* lines 137-141
BranchDiff ==
    /\ pc = "dispatch"
    /\ Dispatch(args) = "diff"
    /\ Enter("diff")
    /\ LET r == read_ram_dump(args.file2) IN
       IF r.kind = "ok"
       THEN /\ data2' = r.data
            /\ out' = out
                  \o <<[line |-> "loaded", n |-> Len(r.data), warning |-> r.warning]>>
                  \o compare_dumps(data, r.data, 100).printed
            /\ Finish("ok")
       ELSE /\ Finish(r.kind)
            /\ UNCHANGED <<data2, out>>
    /\ UNCHANGED <<data, args>>

\* lines 144-151
BranchAddress ==
    /\ pc = "dispatch"
    /\ Dispatch(args) = "address"
    /\ Enter("address")
    /\ LET address == PyInt(args.address.text, 16)
           v == read_value(data, address.value, args.size)
           dump == print_hex_dump(data, address.value, args.hex_length)
       IN  IF ~address.ok THEN Finish("ValueError") /\ out' = out
           ELSE IF v.kind # "value" THEN Finish(v.kind) /\ out' = out
           ELSE IF ~args.hex
           THEN /\ out' = Append(out, [line |-> "value", addr |-> address.value,
                                        size |-> args.size, value |-> v.value])
                /\ Finish("ok")
           ELSE /\ out' = Append(out, [line |-> "value", addr |-> address.value,
                                        size |-> args.size, value |-> v.value])
                            \o dump.lines
                /\ Finish(dump.kind)
    /\ UNCHANGED <<data, data2, args>>

\* lines 154-160
BranchGame ==
    /\ pc = "dispatch"
    /\ Dispatch(args) = "game"
    /\ Enter("game")
    /\ LET r == ReadAll(data, KNOWN_ADDRESSES(args.game), 1) IN
       /\ out' = out \o <<[line |-> "game_title"], [line |-> "rule"]>> \o r.lines
       /\ Finish(r.kind)
    /\ UNCHANGED <<data, data2, args>>

\* lines 163-170
BranchWatch ==
    /\ pc = "dispatch"
    /\ Dispatch(args) = "watch"
    /\ Enter("watch")
    /\ LET w == load_watches(args.watches) IN
       IF w.kind # "ok" THEN Finish(w.kind) /\ out' = out
       ELSE LET r == ReadAll(data,
                        [k \in 1 .. Len(w.watches) |->
                            <<w.watches[k][2], w.watches[k][3]>>], 1)
            IN  /\ out' = out \o <<[line |-> "watch_title"], [line |-> "rule"]>>
                              \o r.lines
                /\ Finish(r.kind)
    /\ UNCHANGED <<data, data2, args>>

\* lines 173-178
BranchSummary ==
    /\ pc = "dispatch"
    /\ Dispatch(args) = "summary"
    /\ Enter("summary")
    /\ out' = out \o <<[line |-> "info", size |-> Len(data),
                         nonzero |-> Cardinality({j \in 1 .. Len(data) : data[j] # 0})],
                        [line |-> "usage"]>>
    /\ Finish("ok")
    /\ UNCHANGED <<data, data2, args>>

NextMain ==
    \/ ParseArgs
    \/ LoadFirst
    \/ BranchDiff
    \/ BranchAddress
    \/ BranchGame
    \/ BranchWatch
    \/ BranchSummary

SpecMain == InitMain /\ [][NextMain]_vars

Ended == pc \in {"done", "raised", "exit"}

\* the branch the stated precedence selects, an option counting as given
\* as soon as it appears on the command line
StatedBranch ==
    IF args.diff /\ args.nfiles >= 2 THEN "diff"
    ELSE IF args.address.given THEN "address"
    ELSE IF args.game # "None" THEN "game"
    ELSE IF args.watch_file.given THEN "watch"
    ELSE "summary"

\* the same precedence with an option given when its value is non-empty
NonEmptyBranch ==
    IF args.diff /\ args.nfiles >= 2 THEN "diff"
    ELSE IF args.address.given /\ Len(args.address.text) > 0 THEN "address"
    ELSE IF args.game # "None" THEN "game"
    ELSE IF args.watch_file.given /\ Len(args.watch_file.text) > 0 THEN "watch"
    ELSE "summary"

\* the run got as far as the dispatcher
ReachesDispatch == args.nfiles >= 1 /\ args.game # "other" /\ args.file1.readable

HexDumpPrinted == \E k \in 1 .. Len(out) : out[k].line = "title"

\* C4 as stated: every run of main on a command line the parser accepts
\* executes exactly one branch, the one the precedence diff (with a second
\* file) / address / game / watch file / summary selects; none executes two
\* and none executes none.
C4_ExactlyOneBranchEveryRun ==
    (Ended /\ pc # "exit") => loc.executed = <<StatedBranch>>

\* C4 amended: a run whose arguments parse and whose first dump loads
\* executes exactly one branch, the first of: diff requested with a second
\* file; a non-empty --address; a game id; a non-empty --watch-file; the
\* summary.  A run stopped before the dispatcher (arguments rejected, first
\* dump unreadable) executes none.  No run executes two, and the hex dump
\* is printed only in the address branch with --hex.
C4_OneBranchOnceDispatched ==
    /\ Len(loc.executed) <= 1
    /\ (Ended /\ ReachesDispatch) => loc.executed = <<NonEmptyBranch>>
    /\ (Ended /\ ~ReachesDispatch) => loc.executed = <<>>
    /\ ~Ended => loc.executed = <<>>
    /\ HexDumpPrinted => (loc.executed = <<"address">> /\ args.hex)

C4_Witness ==
    /\ pc = "done"
    /\ loc.executed = <<"address">>
    /\ args.diff /\ args.nfiles = 1
    /\ args.game = "crash3"
    /\ args.watch_file.given
    /\ args.hex
    /\ HexDumpPrinted

====
